---- MODULE Spec2Model ----
(***************************************************************************)
(* Legacy user sessions (arxiv.users.legacy.sessions): create, load,      *)
(* generate_cookie, invalidate and invalidate_by_id over the tapir        *)
(* session and audit tables.                                               *)
(*                                                                         *)
(* Times are whole epoch seconds.  Session ids are the integers the store  *)
(* assigns.  The cookie codec (cookies.pack / cookies.unpack) and the      *)
(* helpers of util (now, epoch, get_session_duration, transaction) are     *)
(* not part of sessions.py; they are modelled from their contract.         *)
(***************************************************************************)
EXTENDS Integers, Sequences, FiniteSets, TLC

\* ---------------------------------------------------------------- bounds
MaxSessions == 2
ClockInit == 2

\* ------------------------------------------------------- configuration
\* util.get_session_duration(): the configured session duration, seconds.
SessionDuration == 2

\* the model follows the clock until just past the expiry of a session
\* created at the start
MaxClock == ClockInit + SessionDuration + 1
\* users that have a DBUser row and a DBUserNickname row
UserIds == {1, 2}
\* a user id that a cookie may carry but that has no row in the store
GhostUser == 3
\* create(user=None)
NoUser == 0
\* session ids a caller may name
SessionIds == 1..MaxSessions
\* domain.Session.ip_address is never set by create or load
NoIp == 0
\* str(session.authorizations.classic), one value
Caps == 6

NoSession == [none |-> TRUE]
NoData == [nodata |-> TRUE]
InvalidCookie == [invalid |-> TRUE]
NoOp == [op |-> "none", outcome |-> "none", cause |-> "none"]

VARIABLES
    clock,      \* the wall clock, epoch seconds
    sessions,   \* tapir_sessions: session_id -> DBSession row
    audits,     \* tapir_sessions_audit: sequence of DBSessionsAudit rows
    created,    \* session_id -> the domain.Session that create returned
    invalidated,\* the session ids on which an invalidate_by_id has committed
    last        \* the operation that just completed, with its inputs and
                \* its outcome, until the caller has taken the outcome

vars == <<clock, sessions, audits, created, invalidated, last>>

\* ------------------------------------------------------------ cookies
\* The digest over the fields of a cookie (a stand-in for the keyed hash).
CookieDigest(session_id, user_id, ip, issued_at, capabilities) ==
    (session_id * 7 + user_id * 5 + ip * 3 + issued_at * 11
        + capabilities * 13 + 1) % 97

\* cookies.pack(session_id, user_id, ip, issued_at, capabilities)
pack(session_id, user_id, ip, issued_at, capabilities) ==
    <<session_id, user_id, ip, issued_at, capabilities,
      CookieDigest(session_id, user_id, ip, issued_at, capabilities)>>

\* cookies.unpack(cookie): the fields plus expires_at, or InvalidCookie
unpack(cookie) ==
    IF Len(cookie) # 6 THEN InvalidCookie
    ELSE IF cookie[6] # CookieDigest(cookie[1], cookie[2], cookie[3],
                                     cookie[4], cookie[5])
         THEN InvalidCookie
    ELSE [session_id |-> cookie[1], user_id |-> cookie[2], ip |-> cookie[3],
          issued_at |-> cookie[4],
          expires_at |-> cookie[4] + SessionDuration,
          capabilities |-> cookie[5]]

\* a cookie whose signature segment was changed
Tamper(cookie) == [cookie EXCEPT ![6] = (cookie[6] + 1) % 97]

\* mutant: the cookie carries the session's end time as its issued-at
generate_cookie_end_time(session) ==
    pack(session.session_id, session.user_id, session.ip_address,
         session.end_time, Caps)

\* generate_cookie(session)
generate_cookie(session) ==
    pack(session.session_id, session.user_id, session.ip_address,
         session.start_time, Caps)

\* ------------------------------------------------------------- helpers
\* util.transaction(): commit the block's writes, or roll all back on a fault
transaction(before, after, fault) ==
    IF fault # "none" THEN before ELSE after

\* util.epoch(t) and util.now(): whole seconds since the epoch
epoch(t) == t

\* the id the store assigns to a new session row
NewSessionId(store) == Cardinality(DOMAIN store) + 1

\* ---------------------------------------------------------------- load
\* mutant: the cookie's expiry claim is not checked
CookieNeverExpired(expires_at, now) == FALSE

\* load, line 69: the cookie's own expiry claim against the zoned clock
CookieExpired(expires_at, now) == expires_at <= now

\* load, line 88: the stored end marker against util.now()
StoreExpired(end_time, now) == end_time # 0 /\ end_time < now

\* mutant: the session row is looked up by session id alone
FindSessionById(store, user_id, session_id) ==
    IF session_id \in DOMAIN store THEN store[session_id] ELSE NoData

\* load, lines 73-80: DBUser, DBSession and DBUserNickname joined on the
\* cookie's user id and session id; .first() gives the row or nothing
FindSessionJoinUser(store, user_id, session_id) ==
    IF /\ user_id \in UserIds
       /\ session_id \in DOMAIN store
       /\ store[session_id].user_id = user_id
    THEN store[session_id]
    ELSE NoData

\* mutant: the returned Session takes its times from the stored row
LoadedSessionFromRow(db_session, user_id, issued_at, expires_at) ==
    [session_id |-> db_session.session_id, user_id |-> user_id,
     start_time |-> db_session.start_time,
     end_time |-> db_session.start_time + SessionDuration,
     ip_address |-> NoIp]

\* load, lines 111-113: the Session value that is returned
LoadedSession(db_session, user_id, issued_at, expires_at) ==
    [session_id |-> db_session.session_id, user_id |-> user_id,
     start_time |-> issued_at, end_time |-> expires_at,
     ip_address |-> NoIp]

\* load(cookie) at clock value now over the store: outcome, returned
\* Session and the number of store reads it made
LoadResult(cookie, now, store) ==
    LET c == unpack(cookie) IN
    IF c = InvalidCookie
    THEN [outcome |-> "InvalidCookie", session |-> NoSession, reads |-> 0]
    ELSE IF CookieExpired(c.expires_at, now)
    THEN [outcome |-> "SessionExpired", session |-> NoSession, reads |-> 0]
    ELSE LET data == FindSessionJoinUser(store, c.user_id, c.session_id) IN
         IF data = NoData
         THEN [outcome |-> "UnknownSession", session |-> NoSession,
               reads |-> 1]
         ELSE IF StoreExpired(data.end_time, now)
         THEN [outcome |-> "SessionExpired", session |-> NoSession,
               reads |-> 1]
         ELSE [outcome |-> "ok",
               session |-> LoadedSession(data, c.user_id, c.issued_at,
                                         c.expires_at),
               reads |-> 1]

\* the cookies a request may carry: the ones generated for created
\* sessions, well-signed cookies issued up to now for any session id and
\* user id, the empty string and a cookie with a changed signature
ForgedCookies ==
    {pack(s, u, NoIp, t, Caps) :
        s \in SessionIds, u \in UserIds \cup {GhostUser},
        t \in ClockInit..clock}
BadCookies == { <<>>, Tamper(pack(1, 1, NoIp, clock, Caps)) }
Cookies ==
    {generate_cookie(created[s]) : s \in DOMAIN created}
        \cup ForgedCookies \cup BadCookies
\* the cookies presented to invalidate: only the session id is used
InvalidateCookies ==
    {generate_cookie(created[s]) : s \in DOMAIN created}
        \cup {pack(MaxSessions, GhostUser, NoIp, clock, Caps)}
        \cup {Tamper(pack(1, 1, NoIp, clock, Caps))}

\* mutant: a load that finds the session expired writes an end marker
LoadMarkingExpired(cookie) ==
    LET r == LoadResult(cookie, clock, sessions)
        c == unpack(cookie)
    IN
    /\ last' = [op |-> "load", cookie |-> cookie, now |-> clock,
                outcome |-> r.outcome, cause |-> "none",
                session |-> r.session, reads |-> r.reads]
    /\ sessions' = IF /\ r.outcome = "SessionExpired"
                      /\ c.session_id \in DOMAIN sessions
                   THEN [sessions EXCEPT
                            ![c.session_id].end_time = clock - 1]
                   ELSE sessions
    /\ UNCHANGED <<clock, audits, created, invalidated>>

Load(cookie) ==
    LET r == LoadResult(cookie, clock, sessions) IN
    /\ last' = [op |-> "load", cookie |-> cookie, now |-> clock,
                outcome |-> r.outcome, cause |-> "none",
                session |-> r.session, reads |-> r.reads]
    /\ UNCHANGED <<clock, sessions, audits, created, invalidated>>

\* -------------------------------------------------------------- create
ClientIp == 1
RemoteHost == 1
TrackingCookie == 1

\* mutant: the row stores the computed end of the session
NewDBSessionWithEnd(session_id, user_id, start) ==
    [session_id |-> session_id, user_id |-> user_id,
     last_reissue |-> epoch(start), start_time |-> epoch(start),
     end_time |-> epoch(start + SessionDuration)]

\* create, lines 147-152: the DBSession row
NewDBSession(session_id, user_id, start) ==
    [session_id |-> session_id, user_id |-> user_id,
     last_reissue |-> epoch(start), start_time |-> epoch(start),
     end_time |-> 0]

\* mutant: the audit row is not linked to the new session
UnlinkedDBSessionsAudit(db_session, ip, remote_host, tracking_cookie) ==
    [session_id |-> 0, ip_addr |-> ip,
     remote_host |-> remote_host, tracking_cookie |-> tracking_cookie]

\* create, lines 153-158: the DBSessionsAudit row, linked to the session
NewDBSessionsAudit(db_session, ip, remote_host, tracking_cookie) ==
    [session_id |-> db_session.session_id, ip_addr |-> ip,
     remote_host |-> remote_host, tracking_cookie |-> tracking_cookie]

\* mutant: the returned Session ends when it starts
CreatedSessionNoDuration(db_session, user_id, start) ==
    [session_id |-> db_session.session_id, user_id |-> user_id,
     start_time |-> start, end_time |-> start,
     ip_address |-> NoIp]

\* create, lines 164-166: the Session value that is returned
CreatedSession(db_session, user_id, start) ==
    [session_id |-> db_session.session_id, user_id |-> user_id,
     start_time |-> start, end_time |-> start + SessionDuration,
     ip_address |-> NoIp]

\* mutant: the user is not checked
UserNotChecked(user) == FALSE

\* create, line 139
UserMissing(user) == user = NoUser

\* a fault raised inside the transaction, by session.add or by
\* session.commit after the rows were added
CreateFaults == {"none", "AddFault", "CommitFault"}

Create(user, fault) ==
    LET start == clock
        row == NewDBSession(NewSessionId(sessions), user, start)
        audit == NewDBSessionsAudit(row, ClientIp, RemoteHost,
                                    TrackingCookie)
        added == <<sessions @@ (row.session_id :> row),
                   Append(audits, audit)>>
        store == transaction(<<sessions, audits>>, added, fault)
    IN
    IF UserMissing(user)
    THEN /\ fault = "none"
         /\ last' = [op |-> "create", user |-> user, now |-> clock,
                     fault |-> fault,
                     outcome |-> "SessionCreationFailed",
                     cause |-> "none", session |-> NoSession]
         /\ UNCHANGED <<clock, sessions, audits, created, invalidated>>
    ELSE /\ fault = "none" => Cardinality(DOMAIN sessions) < MaxSessions
         /\ sessions' = store[1]
         /\ audits' = store[2]
         /\ IF fault # "none"
            THEN /\ last' = [op |-> "create", user |-> user, now |-> clock,
                             fault |-> fault,
                             outcome |-> "SessionCreationFailed",
                             cause |-> fault, session |-> NoSession]
                 /\ UNCHANGED created
            ELSE /\ last' = [op |-> "create", user |-> user, now |-> clock,
                             fault |-> fault,
                             outcome |-> "ok", cause |-> "none",
                             session |-> CreatedSession(row, user, start)]
                 /\ created' = created @@
                        (row.session_id :> CreatedSession(row, user, start))
         /\ UNCHANGED <<clock, invalidated>>

\* ---------------------------------------------------------- invalidate
\* invalidate_by_id reads the clock first (line 226) and commits its
\* transaction later (lines 229-232); other calls may commit in between.
\* The actions below are the commit; `started` is the clock value that
\* the call read when it began, at or before the commit.

\* mutant: the end marker is taken ahead of the clock
InvalidationEndAhead(started) == started + 2

\* invalidate_by_id, lines 226-227: seconds since the epoch at the call
InvalidationEnd(started) == started

\* mutant: the end marker without the one-second margin
NewEndTimeNoMargin(end) == end

\* invalidate_by_id, line 231: the end marker that is stored
NewEndTime(end) == end - 1

\* _load, lines 37-42: the row with that id, or nothing (UnknownSession)
LoadRow(store, session_id) ==
    IF session_id \in DOMAIN store THEN store[session_id] ELSE NoData

\* mutant: the update is not keyed by the session id
MergeEndTimeAllRows(store, session_id, end) ==
    [s \in DOMAIN store |-> [store[s] EXCEPT !.end_time = NewEndTime(end)]]

\* mutant: the row is deleted
MergeDeletesRow(store, session_id, end) ==
    [s \in DOMAIN store \ {session_id} |-> store[s]]

\* invalidate_by_id, lines 230-232: the store after the merge
MergeEndTime(store, session_id, end) ==
    [store EXCEPT ![session_id].end_time = NewEndTime(end)]

InvalidateFaults == {"none", "NoResultFound", "SQLAlchemyError"}

\* mutant: the faults of the store are not translated
InvalidateByIdResultRaw(store, session_id, started, fault) ==
    LET end == InvalidationEnd(started)
        row == LoadRow(store, session_id)
    IN
    IF fault # "none"
    THEN [store |-> store, outcome |-> fault, cause |-> "none"]
    ELSE IF row = NoData
    THEN [store |-> store, outcome |-> "UnknownSession", cause |-> "none"]
    ELSE [store |-> transaction(store,
                        MergeEndTime(store, session_id, end), fault),
          outcome |-> "ok", cause |-> "none"]

\* invalidate_by_id, lines 228-236: store and outcome of the call
InvalidateByIdResult(store, session_id, started, fault) ==
    LET end == InvalidationEnd(started)
        row == LoadRow(store, session_id)
    IN
    IF fault = "SQLAlchemyError"
    THEN [store |-> store, outcome |-> "IOError", cause |-> fault]
    ELSE IF fault = "NoResultFound"
    THEN [store |-> store, outcome |-> "UnknownSession", cause |-> fault]
    ELSE IF row = NoData
    THEN [store |-> store, outcome |-> "UnknownSession", cause |-> "none"]
    ELSE [store |-> transaction(store,
                        MergeEndTime(store, session_id, end), fault),
          outcome |-> "ok", cause |-> "none"]

InvalidateById(session_id, started, fault) ==
    LET r == InvalidateByIdResult(sessions, session_id, started, fault) IN
    /\ sessions' = r.store
    /\ invalidated' = IF r.outcome = "ok"
                      THEN invalidated \cup {session_id}
                      ELSE invalidated
    /\ last' = [op |-> "invalidate_by_id", session_id |-> session_id,
                started |-> started, now |-> clock, fault |-> fault,
                outcome |-> r.outcome, cause |-> r.cause]
    /\ UNCHANGED <<clock, audits, created>>

\* mutant: the fields of the decoded cookie are taken in the wrong order
CookieSessionIdSwapped(c) == c.user_id

\* invalidate, line 204: the session id taken from the decoded cookie
CookieSessionId(c) == c.session_id

\* invalidate(cookie), lines 203-208
Invalidate(cookie, started, fault) ==
    LET c == unpack(cookie) IN
    IF c = InvalidCookie
    THEN /\ fault = "none"
         /\ started = clock
         /\ last' = [op |-> "invalidate", cookie |-> cookie,
                     started |-> started, now |-> clock, fault |-> fault,
                     outcome |-> "UnknownSession",
                     cause |-> "InvalidCookie", called |-> FALSE]
         /\ UNCHANGED <<clock, sessions, audits, created, invalidated>>
    ELSE LET r == InvalidateByIdResult(sessions, CookieSessionId(c),
                                       started, fault) IN
         /\ sessions' = r.store
         /\ invalidated' = IF r.outcome = "ok"
                           THEN invalidated \cup {CookieSessionId(c)}
                           ELSE invalidated
         /\ last' = [op |-> "invalidate", cookie |-> cookie,
                     started |-> started, now |-> clock, fault |-> fault,
                     outcome |-> r.outcome, cause |-> r.cause,
                     called |-> TRUE]
         /\ UNCHANGED <<clock, audits, created>>

\* --------------------------------------------------------------- clock
Tick ==
    /\ clock < MaxClock
    /\ clock' = clock + 1
    /\ UNCHANGED <<sessions, audits, created, invalidated, last>>

\* ------------------------------------------------------------- callers
\* the caller takes the outcome of the operation that completed
Return ==
    /\ last # NoOp
    /\ last' = NoOp
    /\ UNCHANGED <<clock, sessions, audits, created, invalidated>>

\* ------------------------------------------------------- specification
\* the clock values a call that commits now may have read when it began
StartedAt == ClockInit..clock

EmptyStore == [s \in {} |-> {}]

Init ==
    /\ clock = ClockInit
    /\ sessions = EmptyStore
    /\ audits = <<>>
    /\ created = EmptyStore
    /\ invalidated = {}
    /\ last = NoOp

\* one operation of the module, run to completion
Operation ==
    \/ \E user \in UserIds \cup {NoUser}, fault \in CreateFaults :
          Create(user, fault)
    \/ \E cookie \in Cookies : Load(cookie)
    \/ \E cookie \in InvalidateCookies, started \in StartedAt,
          fault \in InvalidateFaults :
          /\ fault # "none" => started = clock
          /\ Invalidate(cookie, started, fault)
    \/ \E s \in SessionIds, started \in StartedAt,
          fault \in InvalidateFaults :
          /\ fault # "none" => started = clock
          /\ InvalidateById(s, started, fault)

Next ==
    \/ last = NoOp /\ Tick
    \/ last = NoOp /\ Operation
    \/ Return

Spec == Init /\ [][Next]_vars

\* ---------------------------------------------- store check in isolation
\* The session table is shared with the legacy system, which writes end
\* markers of its own: a row found by load may hold any end time.
InitLoad ==
    /\ clock \in ClockInit..MaxClock
    /\ \E u \in UserIds, end_time \in 0..(MaxClock + 1) :
          sessions = (1 :> [session_id |-> 1, user_id |-> u,
                            last_reissue |-> ClockInit,
                            start_time |-> ClockInit,
                            end_time |-> end_time])
    /\ audits = << [session_id |-> 1, ip_addr |-> ClientIp,
                    remote_host |-> RemoteHost,
                    tracking_cookie |-> TrackingCookie] >>
    /\ created = EmptyStore
    /\ invalidated = {}
    /\ last = NoOp

NextLoad ==
    \/ last = NoOp /\ Tick
    \/ last = NoOp /\ \E cookie \in Cookies : Load(cookie)
    \/ Return

SpecLoad == InitLoad /\ [][NextLoad]_vars

\* ---------------------------------------------------------------- claims
\* the owner of session s is the user the cookie names
OwnerMatches(c) ==
    /\ c.session_id \in DOMAIN sessions
    /\ sessions[c.session_id].user_id = c.user_id

\* C1: once an invalidate_by_id(s) has committed, no load with a cookie
\* naming session s returns a Session, whatever further invalidations
\* commit and at whatever clock value (the second of the invalidation
\* included); with the cookie of the session's owner it raises
\* SessionExpired.
InvalidatedNeverLoads ==
    (/\ last.op = "load"
     /\ unpack(last.cookie) # InvalidCookie
     /\ unpack(last.cookie).session_id \in invalidated)
    => /\ last.outcome # "ok"
       /\ last.session = NoSession
       /\ OwnerMatches(unpack(last.cookie))
            => last.outcome = "SessionExpired"

\* C1 witness: a load in the very second of the invalidation, with a cookie
\* that has not expired, is turned down by the store check
LoadInSecondOfInvalidation ==
    /\ last.op = "load"
    /\ unpack(last.cookie) # InvalidCookie
    /\ unpack(last.cookie).session_id \in invalidated
    /\ OwnerMatches(unpack(last.cookie))
    /\ unpack(last.cookie).expires_at > last.now
    /\ sessions[unpack(last.cookie).session_id].end_time = last.now - 1
    /\ last.reads = 1
    /\ last.outcome = "SessionExpired"

\* the load that just completed carried the cookie generated for the
\* session s that create returned, and s was never invalidated
LoadOfGenerated(s) ==
    /\ last.op = "load"
    /\ s \in DOMAIN created
    /\ s \notin invalidated
    /\ last.cookie = generate_cookie(created[s])

\* C2: for a session created at T0 and never invalidated, a load with its
\* generated cookie in the same second returns a Session with the same
\* session id, the same user id and end_time = T0 + D; the same load D + 1
\* seconds later raises SessionExpired.
CreateThenLoad ==
    \A s \in DOMAIN created :
        LoadOfGenerated(s) =>
            /\ created[s].end_time = created[s].start_time + SessionDuration
            /\ last.now = created[s].start_time =>
                  /\ last.outcome = "ok"
                  /\ last.session.session_id = s
                  /\ last.session.user_id = created[s].user_id
                  /\ last.session.end_time
                        = created[s].start_time + SessionDuration
            /\ last.now = created[s].start_time + SessionDuration + 1 =>
                  /\ last.outcome = "SessionExpired"
                  /\ last.session = NoSession

\* C2 witness: the load D + 1 seconds after the creation
LoadAfterDuration ==
    \E s \in DOMAIN created :
        /\ LoadOfGenerated(s)
        /\ last.now = created[s].start_time + SessionDuration + 1
        /\ last.outcome = "SessionExpired"

\* C3 as stated: by the stored end marker and the store clock alone, a
\* session is active D - 1 seconds after its start and expired D + 1
\* seconds after its start.
ExpiryOrderingByStoreCheck ==
    \A s \in DOMAIN created :
        s \notin invalidated =>
            /\ clock = created[s].start_time + SessionDuration - 1
                  => ~(sessions[s].end_time # 0
                        /\ sessions[s].end_time < clock)
            /\ clock = created[s].start_time + SessionDuration + 1
                  => (sessions[s].end_time # 0
                        /\ sessions[s].end_time < clock)

\* C3 amended: a session that was never invalidated is active by the store
\* check at every time, D + 1 seconds after its start included; its expiry
\* comes from the cookie's claimed expiry alone: a load with the generated
\* cookie succeeds D - 1 seconds after the start, and D + 1 seconds after
\* the start it raises SessionExpired without reading the store.
ExpiryOrderingByCookie ==
    \A s \in DOMAIN created :
        s \notin invalidated =>
            /\ ~(sessions[s].end_time # 0 /\ sessions[s].end_time < clock)
            /\ LoadOfGenerated(s) =>
                /\ last.now = created[s].start_time + SessionDuration - 1
                      => last.outcome = "ok" /\ last.reads = 1
                /\ last.now = created[s].start_time + SessionDuration + 1
                      => last.outcome = "SessionExpired" /\ last.reads = 0

\* C3 witness: D + 1 seconds after the start the stored end marker is
\* still unset, and the load is turned down before the store is read
ExpiredByCookieOnly ==
    \E s \in DOMAIN created :
        /\ LoadOfGenerated(s)
        /\ clock = created[s].start_time + SessionDuration + 1
        /\ last.now = clock
        /\ sessions[s].end_time = 0
        /\ last.outcome = "SessionExpired"
        /\ last.reads = 0

\* C4: a load that reaches the store check succeeds iff the stored end
\* time is 0 or strictly greater than now; otherwise, end time equal to
\* now included, it raises SessionExpired.
StoreCheckStrictlyFuture ==
    (/\ last.op = "load"
     /\ unpack(last.cookie) # InvalidCookie
     /\ unpack(last.cookie).expires_at > last.now
     /\ unpack(last.cookie).user_id \in UserIds
     /\ OwnerMatches(unpack(last.cookie)))
    => LET end_time == sessions[unpack(last.cookie).session_id].end_time IN
       IF end_time = 0 \/ end_time > last.now
       THEN last.outcome = "ok"
       ELSE last.outcome = "SessionExpired"

\* C5: a load whose cookie the codec cannot decode fails with
\* UnknownSession and reads nothing from the store.
UndecodableCookieUnknownSession ==
    (last.op = "load" /\ unpack(last.cookie) = InvalidCookie)
    => last.outcome = "UnknownSession" /\ last.reads = 0

\* C6: a load with a well-formed cookie whose claimed expiry has not
\* passed, for which the store has no session row with the cookie's
\* session id owned by the cookie's user id, fails with UnknownSession and
\* returns no Session.
NoRowUnknownSession ==
    (/\ last.op = "load"
     /\ unpack(last.cookie) # InvalidCookie
     /\ unpack(last.cookie).expires_at > last.now
     /\ ~OwnerMatches(unpack(last.cookie)))
    => last.outcome = "UnknownSession" /\ last.session = NoSession

\* C6 witness: the session id is in the store, owned by another user
LoadOfOtherUsersSession ==
    /\ last.op = "load"
    /\ unpack(last.cookie) # InvalidCookie
    /\ unpack(last.cookie).expires_at > last.now
    /\ unpack(last.cookie).session_id \in DOMAIN sessions
    /\ unpack(last.cookie).user_id \in UserIds
    /\ sessions[unpack(last.cookie).session_id].user_id
          # unpack(last.cookie).user_id
    /\ sessions[unpack(last.cookie).session_id].end_time = 0
    /\ last.outcome = "UnknownSession"

\* the unset end marker 0 counts as later than every real time
EndOrder(end_time) == IF end_time = 0 THEN MaxClock + 2 ELSE end_time

\* C7 as stated: no step leaves the stored end time of a session later
\* than it was.
EndTimeOnlyEarlier ==
    [][\A s \in DOMAIN sessions :
          s \in DOMAIN sessions'
            => EndOrder(sessions'[s].end_time)
                  <= EndOrder(sessions[s].end_time)]_vars

\* C7 amended: invalidation always leaves the stored end time in the
\* past, though a later call may move it later than an earlier call left
\* it: a call that commits stores the clock value it read when it began
\* minus one, and every stored end time that is set is strictly earlier
\* than the clock.
EndTimeAlwaysPast ==
    /\ \A s \in DOMAIN sessions :
          sessions[s].end_time # 0 => sessions[s].end_time < clock
    /\ (last.op = "invalidate_by_id" /\ last.outcome = "ok")
          => /\ sessions[last.session_id].end_time = last.started - 1
             /\ sessions[last.session_id].end_time # 0

\* C7 witness: a call that read the clock a second or more before it
\* commits
StaleInvalidationCommitted ==
    /\ last.op = "invalidate_by_id"
    /\ last.outcome = "ok"
    /\ last.started < last.now
    /\ sessions[last.session_id].end_time = last.started - 1

\* C8: create with no user fails with SessionCreationFailed and leaves
\* the store as it was; create whose persistence step raises a fault fails
\* with SessionCreationFailed carrying the fault as its cause; neither
\* returns a Session.
CreateFailures ==
    [][(last = NoOp /\ last'.op = "create") =>
          /\ last'.user = NoUser =>
                /\ last'.outcome = "SessionCreationFailed"
                /\ last'.session = NoSession
                /\ sessions' = sessions
                /\ audits' = audits
          /\ last'.fault # "none" =>
                /\ last'.outcome = "SessionCreationFailed"
                /\ last'.cause = last'.fault
                /\ last'.session = NoSession]_vars

\* C8 witness: a create without a user was turned down
CreateWithoutUser ==
    /\ last.op = "create"
    /\ last.user = NoUser
    /\ last.outcome = "SessionCreationFailed"

\* every session row has one audit row, every audit row a session row
OneAuditPerSession ==
    /\ \A s \in DOMAIN sessions :
          Cardinality({i \in DOMAIN audits : audits[i].session_id = s}) = 1
    /\ \A i \in DOMAIN audits : audits[i].session_id \in DOMAIN sessions

\* C9: session rows and audit rows are one to one in every state; a
\* create that succeeds adds one of each, a create that fails adds neither,
\* and no step changes an audit row that exists.
AuditOneToOne ==
    [][/\ OneAuditPerSession'
       /\ \A i \in DOMAIN audits :
             i \in DOMAIN audits' /\ audits'[i] = audits[i]
       /\ (last = NoOp /\ last'.op = "create") =>
             IF last'.outcome = "ok"
             THEN /\ Len(audits') = Len(audits) + 1
                  /\ Cardinality(DOMAIN sessions')
                        = Cardinality(DOMAIN sessions) + 1
             ELSE /\ audits' = audits
                  /\ sessions' = sessions]_vars

\* C9 witness: a create failed on a fault after an earlier one succeeded
CreateFailedAfterSuccess ==
    /\ last.op = "create"
    /\ last.fault = "CommitFault"
    /\ Cardinality(DOMAIN sessions) = 1
    /\ Len(audits) = 1
    /\ audits[1].session_id \in DOMAIN sessions

\* C10: invalidate with a cookie that cannot be decoded fails with
\* UnknownSession, caused by InvalidCookie, without calling
\* invalidate_by_id and without changing a session row; with a cookie that
\* decodes it does what invalidate_by_id does for the cookie's session id.
InvalidateDelegates ==
    [][(last = NoOp /\ last'.op = "invalidate") =>
          IF unpack(last'.cookie) = InvalidCookie
          THEN /\ last'.outcome = "UnknownSession"
               /\ last'.cause = "InvalidCookie"
               /\ ~last'.called
               /\ sessions' = sessions
          ELSE LET sid == unpack(last'.cookie).session_id IN
               /\ last'.called
               /\ IF last'.fault = "SQLAlchemyError"
                  THEN last'.outcome = "IOError" /\ sessions' = sessions
                  ELSE IF last'.fault = "NoResultFound"
                          \/ sid \notin DOMAIN sessions
                  THEN /\ last'.outcome = "UnknownSession"
                       /\ sessions' = sessions
                  ELSE /\ last'.outcome = "ok"
                       /\ sessions' = [sessions EXCEPT
                              ![sid].end_time = last'.started - 1]]_vars

\* C10 witness: an invalidate with a decodable cookie ended the session
InvalidateByCookieDone ==
    /\ last.op = "invalidate"
    /\ last.called
    /\ last.outcome = "ok"
    /\ unpack(last.cookie).user_id
          # sessions[unpack(last.cookie).session_id].user_id
    /\ sessions[unpack(last.cookie).session_id].end_time = last.started - 1

\* the end times of the session rows
EndTimes(store) == [s \in DOMAIN store |-> store[s].end_time]

\* C11: invalidate_by_id on a session id that has no row fails with
\* UnknownSession, and on a fault of the store it fails with IOError; no
\* error type of the store library reaches the caller, and in neither case
\* is the end time of a session row changed.
InvalidateByIdFailures ==
    [][(last = NoOp /\ last'.op = "invalidate_by_id") =>
          /\ last'.outcome \in {"ok", "UnknownSession", "IOError"}
          /\ (last'.fault = "none"
                /\ last'.session_id \notin DOMAIN sessions) =>
                /\ last'.outcome = "UnknownSession"
                /\ EndTimes(sessions') = EndTimes(sessions)
          /\ last'.fault = "SQLAlchemyError" =>
                /\ last'.outcome = "IOError"
                /\ last'.cause = "SQLAlchemyError"
                /\ EndTimes(sessions') = EndTimes(sessions)]_vars

\* C11 witness: a store fault on a call for a session that is active
InvalidateByIdStoreFault ==
    /\ last.op = "invalidate_by_id"
    /\ last.fault = "SQLAlchemyError"
    /\ last.outcome = "IOError"
    /\ last.session_id \in DOMAIN sessions
    /\ sessions[last.session_id].end_time = 0

\* C12: no step removes a session id from the store, and a load for an
\* invalidated session, with the owner's cookie not yet expired, finds the
\* row and reports SessionExpired, not UnknownSession.
SessionsNeverDeleted ==
    [][/\ DOMAIN sessions \subseteq DOMAIN sessions'
       /\ (/\ last = NoOp
           /\ last'.op = "load"
           /\ unpack(last'.cookie) # InvalidCookie
           /\ unpack(last'.cookie).expires_at > last'.now
           /\ unpack(last'.cookie).session_id \in invalidated
           /\ unpack(last'.cookie).user_id
                = created[unpack(last'.cookie).session_id].user_id)
          => /\ last'.outcome = "SessionExpired"
             /\ last'.reads = 1]_vars

\* C12 witness: an invalidated session is loaded a second or more after
\* its invalidation, and its row is still there
LoadLongAfterInvalidation ==
    /\ last.op = "load"
    /\ unpack(last.cookie) # InvalidCookie
    /\ unpack(last.cookie).expires_at > last.now
    /\ unpack(last.cookie).session_id \in invalidated
    /\ OwnerMatches(unpack(last.cookie))
    /\ sessions[unpack(last.cookie).session_id].end_time < last.now - 1
    /\ last.outcome = "SessionExpired"

\* C13: in every load the cookie is decoded and its claimed expiry is
\* checked before the store is read: a cookie that does not verify, or
\* whose claimed expiry is at or before now, makes load fail with no store
\* read; and a Session is returned only after the row was read and its
\* stored end marker was found unset or not before now.
FastPathBeforeStore ==
    last.op = "load" =>
        /\ (\/ unpack(last.cookie) = InvalidCookie
            \/ unpack(last.cookie).expires_at <= last.now)
              => /\ last.outcome # "ok"
                 /\ last.session = NoSession
                 /\ last.reads = 0
        /\ last.outcome = "ok" =>
              /\ last.reads = 1
              /\ OwnerMatches(unpack(last.cookie))
              /\ LET end_time ==
                        sessions[unpack(last.cookie).session_id].end_time
                 IN  end_time = 0 \/ end_time >= last.now

\* C13 witness: a cookie that passes the fast path for a session whose
\* stored end marker is set is turned down by the store check
FastPathPassedStoreRefused ==
    /\ last.op = "load"
    /\ unpack(last.cookie) # InvalidCookie
    /\ unpack(last.cookie).expires_at > last.now
    /\ unpack(last.cookie).issued_at = last.now
    /\ OwnerMatches(unpack(last.cookie))
    /\ sessions[unpack(last.cookie).session_id].end_time # 0
    /\ last.reads = 1
    /\ last.outcome = "SessionExpired"

\* C14: a Session returned by load has the cookie's issued-at as its
\* start_time and the cookie's expires-at, issued-at plus the configured
\* duration, as its end_time, whatever times the stored row holds; its
\* session id is the id of the stored row.
LoadedTimesFromCookie ==
    (last.op = "load" /\ last.outcome = "ok") =>
        /\ last.session.start_time = unpack(last.cookie).issued_at
        /\ last.session.end_time
              = unpack(last.cookie).issued_at + SessionDuration
        /\ unpack(last.cookie).session_id \in DOMAIN sessions
        /\ last.session.session_id
              = sessions[unpack(last.cookie).session_id].session_id

\* C14 witness: the cookie was issued after the stored row was started
LoadedWithLaterCookie ==
    /\ last.op = "load"
    /\ last.outcome = "ok"
    /\ unpack(last.cookie).issued_at
          > sessions[unpack(last.cookie).session_id].start_time
    /\ last.session.start_time = unpack(last.cookie).issued_at

\* the fields of a session row other than its end time
RowButEndTime(row) ==
    [session_id |-> row.session_id, user_id |-> row.user_id,
     start_time |-> row.start_time, last_reissue |-> row.last_reissue]

\* C15: an invalidate_by_id(s) that succeeds changes the end_time of the
\* row s and nothing else: every other row, the other fields of row s and
\* every audit row are as before.
InvalidateByIdFrame ==
    [][(/\ last = NoOp
        /\ last'.op = "invalidate_by_id"
        /\ last'.outcome = "ok") =>
          /\ DOMAIN sessions' = DOMAIN sessions
          /\ \A s \in DOMAIN sessions :
                s # last'.session_id => sessions'[s] = sessions[s]
          /\ RowButEndTime(sessions'[last'.session_id])
                = RowButEndTime(sessions[last'.session_id])
          /\ sessions'[last'.session_id].end_time = last'.started - 1
          /\ audits' = audits]_vars

\* C15 witness: one of two sessions was invalidated, the other is active
OneOfTwoInvalidated ==
    /\ last.op = "invalidate_by_id"
    /\ last.outcome = "ok"
    /\ \E s \in DOMAIN sessions :
          /\ s # last.session_id
          /\ sessions[s].end_time = 0
          /\ sessions[s].user_id = sessions[last.session_id].user_id

\* C16: the row that create writes has end_time 0 and start_time and
\* last_reissue equal to the epoch seconds of the returned Session's
\* start_time, and the returned Session ends the configured duration after
\* it starts; a stored end_time is non-zero only for a session on which
\* an invalidate_by_id has committed.
CreatedRowUnset ==
    [][/\ \A s \in DOMAIN sessions' :
             sessions'[s].end_time # 0 => s \in invalidated'
       /\ (last = NoOp /\ last'.op = "create" /\ last'.outcome = "ok") =>
             LET sid == last'.session.session_id IN
             /\ sid \notin DOMAIN sessions
             /\ DOMAIN sessions' = DOMAIN sessions \cup {sid}
             /\ sessions'[sid].end_time = 0
             /\ sessions'[sid].start_time = epoch(last'.session.start_time)
             /\ sessions'[sid].last_reissue
                   = epoch(last'.session.start_time)
             /\ last'.session.start_time = clock
             /\ last'.session.end_time
                   = last'.session.start_time + SessionDuration]_vars

\* C16 witness: a session was created while another one is invalidated
CreatedBesideInvalidated ==
    /\ last.op = "create"
    /\ last.outcome = "ok"
    /\ sessions[last.session.session_id].end_time = 0
    /\ \E s \in invalidated : sessions[s].end_time # 0

\* C17: load leaves the store as it was, whatever its outcome: session
\* rows and audit rows are the same after the call as before it.
LoadReadOnly ==
    [][(last = NoOp /\ last'.op = "load") =>
          /\ sessions' = sessions
          /\ audits' = audits]_vars

\* C17 witness: the store check found an active-looking cookie's session
\* expired, and the row still holds the end marker of its invalidation
ExpiredLoadLeftRow ==
    /\ last.op = "load"
    /\ last.outcome = "SessionExpired"
    /\ last.reads = 1
    /\ Cardinality(DOMAIN sessions) = 2
    /\ Len(audits) = 2
    /\ sessions[unpack(last.cookie).session_id].end_time < last.now - 1

====
